---------------------------- MODULE Spec2Model ----------------------------
(***************************************************************************)
(* Model of the otel-demo application (src/app/app.py) and of its load     *)
(* generator (src/load-generator/load_generator.py).                       *)
(*                                                                         *)
(* The application part follows each inbound request through Flask's       *)
(* before_request hook, the endpoint handler and the after_request hook.   *)
(* Everything written to the log stream, every metric call and every span  *)
(* start/end of a request is kept, in program order, in history[r].        *)
(* The load-generator part follows main() and each worker thread.          *)
(***************************************************************************)
EXTENDS Integers, Sequences, FiniteSets, TLC

VARIABLES
    pc,                      \* position of each request in its lifecycle
    path,                    \* request.path of each request
    g,                       \* flask.g of each request's application context
    stack,                   \* OpenTelemetry context of each request: open spans, innermost last
    history,                 \* per request, in program order: log lines, metric calls, span events
    response,                \* the response each request's handler built
    request_counter,         \* instrument app_request_count   (process-wide)
    response_time_histogram, \* instrument app_response_time   (process-wide)
    error_counter,           \* instrument app_error_count     (process-wide)
    instrumented,            \* whether FlaskInstrumentor traces the requests of this process
    todo,                    \* per request: what is left of a handler run followed call by call
    mainpc,                  \* load generator: position of main()
    wpc,                     \* load generator: position of each worker thread
    wurl,                    \* load generator: url chosen by the worker's current make_request
    wret,                    \* load generator: value returned by the worker's current make_request
    wlog,                    \* load generator: last line each worker logged
    wresult,                 \* load generator: how the worker's current requests.get ended
    wfailed,                 \* load generator: whether a request of the worker ever failed
    targetUp,                \* environment: whether the target application is reachable
    fmt_pc,                  \* formatter on its own: whether format() has been called
    fmt_record,              \* formatter on its own: the LogRecord handed to format()
    fmt_log_record           \* formatter on its own: the log_record format() built

appVars == <<pc, path, g, stack, history, response,
             request_counter, response_time_histogram, error_counter, instrumented,
             todo>>
loadVars == <<mainpc, wpc, wurl, wret, wlog, wresult, wfailed, targetUp>>
formatVars == <<fmt_pc, fmt_record, fmt_log_record>>
vars == <<appVars, loadVars, formatVars>>

---------------------------------------------------------------------------
(* Bounds of the model *)

MaxRequests == 2
NumWorkers == 2
MaxExtraFields == 4

Requests == 1..MaxRequests
Workers == 1..NumWorkers

---------------------------------------------------------------------------
(* Small helpers on records (Python dicts) *)

EmptyDict == [k \in {} |-> TRUE]

HasKey(d, k) == k \in DOMAIN d

\* d[k] = v
Put(d, k, v) == (k :> v) @@ d

\* exc_info of a log call made without exc_info=True
NoExcInfo == [set |-> FALSE]

\* a value the model does not follow (random draws, platform data, clock readings)
Opaque == "opaque"

---------------------------------------------------------------------------
(* Logging configuration, app.py lines 160-171 *)

\* numeric values of the logging levels
LevelNo == [NOTSET |-> 0, DEBUG |-> 10, INFO |-> 20, WARNING |-> 30,
            ERROR |-> 40, CRITICAL |-> 50]

\* record.levelname.lower()
Lower == [DEBUG |-> "debug", INFO |-> "info", WARNING |-> "warning",
          ERROR |-> "error", CRITICAL |-> "critical"]

\* logging.basicConfig(level=logging.INFO): the root logger gets level INFO and,
\* having no handler yet, one StreamHandler with the default text format.
RootLevel == "INFO"
RootHandlers == <<"basic_text">>

\* logger = logging.getLogger("otel-demo-app"): level NOTSET, no handlers,
\* propagate = True.  Nothing in the file sets its level or its propagate flag.
LoggerName == "otel-demo-app"
LoggerLevel == "NOTSET"
LoggerPropagate == TRUE

\* for handler in logger.handlers[:]: logger.removeHandler(handler)
\* removes the handlers of `logger` itself (there are none); then
\* logger.addHandler(console_handler) with the EcsJsonFormatter.
LoggerHandlers ==
    LET initial == <<>>
        removed == SelectSeq(initial, LAMBDA h : FALSE)
    IN  Append(removed, "ecs_json")

\* Logger.getEffectiveLevel(): the first level that is set, walking up to the root
EffectiveLevel == IF LoggerLevel # "NOTSET" THEN LoggerLevel ELSE RootLevel

\* Logger.isEnabledFor(level)
IsEnabledFor(levelname) == LevelNo[levelname] >= LevelNo[EffectiveLevel]

\* Logger.callHandlers(): the logger's own handlers, then its ancestors' while
\* propagate is set
CallHandlers ==
    LoggerHandlers \o (IF LoggerPropagate THEN RootHandlers ELSE <<>>)

---------------------------------------------------------------------------
(* Trace context *)

\* trace.get_current_span() with no span in the context: INVALID_SPAN
InvalidSpan == [name |-> "invalid", trace_id |-> 0, span_id |-> 0, parent |-> 0,
                status |-> "UNSET", exceptions |-> <<>>, attributes |-> EmptyDict]

\* a slip: the outermost span of the context instead of the innermost
GetRootSpan(stk) == IF stk = <<>> THEN InvalidSpan ELSE stk[1]

GetCurrentSpan(stk) == IF stk = <<>> THEN InvalidSpan ELSE stk[Len(stk)]

\* SpanContext.is_valid
IsValid(span) == span.trace_id # 0 /\ span.span_id # 0

\* format(n, '032x') / format(n, '016x'): a zero-padded hex string of that width
Hex(n, width) == [hex |-> n, width |-> width]

---------------------------------------------------------------------------
(* EcsJsonFormatter.format, app.py lines 25-158 *)

\* lines 139-156: one pass of the loop body, for one key and its value
ApplyExtraField(log_record, key, value) ==
    IF key = "event_type" THEN
        Put(log_record, "event",
            Put(IF HasKey(log_record, "event") THEN log_record.event ELSE EmptyDict,
                "type", value))
    ELSE IF key = "error_type" /\ ~HasKey(log_record, "error") THEN
        Put(log_record, "error", [type |-> value])
    ELSE IF key = "error_details" /\ HasKey(log_record, "error") THEN
        Put(log_record, "error", Put(log_record.error, "message", value))
    ELSE IF key = "duration_ms" THEN
        Put(log_record, "event",
            Put(IF HasKey(log_record, "event") THEN log_record.event ELSE EmptyDict,
                "duration", value * 1000000))
    ELSE
        Put(log_record, "labels",
            Put(IF HasKey(log_record, "labels") THEN log_record.labels ELSE EmptyDict,
                key, value))

\* lines 136-138: the loop over record.extra_fields, in the mapping's order;
\* the result of the first n fields
RECURSIVE ApplyExtraFields(_, _, _)
ApplyExtraFields(log_record, extra_fields, n) ==
    IF n = 0 THEN log_record
    ELSE CHOOSE after \in
            {ApplyExtraField(before, extra_fields[n][1], extra_fields[n][2]) :
                before \in {ApplyExtraFields(log_record, extra_fields, n - 1)}} : TRUE

\* record: [levelname, msg, exc_info, extra_fields]; gctx: flask.g of the caller's
\* context; req: the caller's request; stk: the caller's span context.
Format(record, gctx, req, stk) ==
    LET base == [log |-> [level |-> Lower[record.levelname], logger |-> LoggerName],
                 message |-> record.msg,
                 service |-> [name |-> "otel-demo-app", version |-> "1.0.0"],
                 event |-> [module |-> "app"]]
        ctx == GetCurrentSpan(stk)
        withTrace ==
            IF IsValid(ctx)
            THEN Put(Put(base, "trace", [id |-> Hex(ctx.trace_id, 32)]),
                     "span", [id |-> Hex(ctx.span_id, 16)])
            ELSE base
        withRequest ==
            IF HasKey(gctx, "request_id")
            THEN Put(Put(Put(withTrace, "transaction", [id |-> gctx.request_id]),
                         "http", [request |-> [method |-> req.method],
                                  url |-> [path |-> req.path]]),
                     "client", [ip |-> "remote_addr"])
            ELSE withTrace
        withException ==
            IF record.exc_info.set
            THEN Put(withRequest, "error",
                     [type |-> record.exc_info.type,
                      message |-> record.exc_info.message,
                      stack_trace |-> record.exc_info.traceback])
            ELSE withRequest
    IN  ApplyExtraFields(withException, record.extra_fields, Len(record.extra_fields))

\* logging.Formatter.format with BASIC_FORMAT, "%(levelname)s:%(name)s:%(message)s"
BasicFormat(record) == <<record.levelname, LoggerName, record.msg>>

\* StreamHandler.emit of one handler: one line on the stream
Emit(handler, record, gctx, req, stk) ==
    IF handler = "ecs_json"
    THEN [kind |-> "line", fmt |-> "json", json |-> Format(record, gctx, req, stk)]
    ELSE [kind |-> "line", fmt |-> "text", text |-> BasicFormat(record)]

\* logger.debug/info/warning/error/critical(msg, exc_info=..., extra={"extra_fields": ...}):
\* the call itself, then the lines it writes to the log stream
LogCall(levelname, msg, extra_fields, exc_info, gctx, req, stk) ==
    LET record == [levelname |-> levelname, msg |-> msg,
                   exc_info |-> exc_info, extra_fields |-> extra_fields]
    IN  <<[kind |-> "log_call", levelname |-> levelname, msg |-> msg]>>
        \o (IF IsEnabledFor(levelname)
            THEN [i \in 1..Len(CallHandlers) |->
                    Emit(CallHandlers[i], record, gctx, req, stk)]
            ELSE <<>>)

---------------------------------------------------------------------------
(* Metric instruments, app.py lines 200-212 *)

\* a slip: the instrument keeps the last value passed instead of adding it
AccumulateLast(instrument, attributes, n) == Put(instrument, attributes, n)

\* Counter.add(n, attributes) / Histogram.record(value, attributes): the
\* instrument keeps one running total (one observation count) per attribute set
Accumulate(instrument, attributes, n) ==
    Put(instrument, attributes,
        (IF attributes \in DOMAIN instrument THEN instrument[attributes] ELSE 0) + n)

MetricCall(name, attributes) ==
    [kind |-> "metric", instrument |-> name, attributes |-> attributes]

---------------------------------------------------------------------------
(* Spans *)

TraceId(r) == r
SpanId(r, depth) == 10 * r + depth

\* tracer.start_as_current_span(name): a child of the current span when that one
\* is valid (same trace), the root of a new trace otherwise
StartSpan(r, stk, name) ==
    LET parent == GetCurrentSpan(stk)
    IN  [name |-> name,
         trace_id |-> IF IsValid(parent) THEN parent.trace_id ELSE TraceId(r),
         span_id |-> SpanId(r, Len(stk) + 1),
         parent |-> parent.span_id,
         status |-> "UNSET", exceptions |-> <<>>, attributes |-> EmptyDict]

SpanStart(span) == [kind |-> "span_start", name |-> span.name, span_id |-> span.span_id]
SpanEnd(span) == [kind |-> "span_end", name |-> span.name, span |-> span]

---------------------------------------------------------------------------
(* Requests *)

Paths == {"/", "/api/data", "/health", "/logs/sample"}

\* flask.request of request r
Request(r) == [method |-> "GET", path |-> path[r]]

\* a slip: one identifier made at import time and reused by every request
Uuid4AtImport(r) == <<"uuid", 0>>

\* str(uuid.uuid4()): a fresh identifier per call; before_request calls it once
\* per request
Uuid4(r) == <<"uuid", r>>

NoResponse == [status_code |-> 0, body |-> EmptyDict]

\* jsonify(body) [, status]: status 200 unless one is given
Jsonify(body, status_code) == [status_code |-> status_code, body |-> body]

\* Flask's answer to an exception that leaves a view function: a generic 500 page
InternalServerError == [status_code |-> 500, body |-> [html |-> "Internal Server Error"]]

\* nothing is left to perform of a handler run
NoTodo == [events |-> <<>>, stack |-> <<>>, response |-> NoResponse, nextpc |-> "none"]

\* what one run of (a part of) a handler did: the events in program order, the
\* span context it leaves, and the response it returned (NoResponse while running)
Outcome(events, stk, resp) == [events |-> events, stack |-> stk, response |-> resp]

---------------------------------------------------------------------------
(* before_request, app.py lines 218-240 *)

before_request(r, req, stk) ==
    LET gctx == [request_id |-> Uuid4(r), start_time |-> Opaque]
    IN  [g |-> gctx,
         events |->
            LogCall("INFO", <<"Request received", req.method, req.path>>,
                    << <<"request_id", gctx.request_id>>,
                       <<"method", req.method>>,
                       <<"path", req.path>>,
                       <<"ip", Opaque>>,
                       <<"user_agent", Opaque>>,
                       <<"query_params", Opaque>>,
                       <<"request_headers", Opaque>>,
                       <<"event_type", "request_received">> >>,
                    NoExcInfo, gctx, req, stk)]

---------------------------------------------------------------------------
(* after_request, app.py lines 242-260 *)

\* a slip: the line logged at debug level, below the configured level
after_request_debug(resp, gctx, req, stk) ==
    LogCall("DEBUG", <<"Response sent", resp.status_code>>,
            << <<"request_id", gctx.request_id>>,
               <<"status_code", resp.status_code>>,
               <<"event_type", "response_sent">> >>,
            NoExcInfo, gctx, req, stk)

after_request(resp, gctx, req, stk) ==
    LogCall("INFO", <<"Response sent", resp.status_code>>,
            << <<"request_id", gctx.request_id>>,
               <<"status_code", resp.status_code>>,
               <<"duration_ms", 1>>,
               <<"response_size_bytes", Opaque>>,
               <<"event_type", "response_sent">>,
               <<"path", req.path>> >>,
            NoExcInfo, gctx, req, stk)

---------------------------------------------------------------------------
(* hello, app.py lines 262-372 *)

\* line 309: the kinds random.choice draws from
RootErrorTypes ==
    {"database_error", "timeout_error", "validation_error", "authentication_error"}

\* lines 310-315
RootErrorDetails ==
    [database_error |-> "Failed to connect to database after 3 retries",
     timeout_error |-> "External API call timed out after 5000ms",
     validation_error |-> "Required parameter 'transaction_id' was missing or invalid",
     authentication_error |-> "Invalid or expired session token"]

\* a slip: the draw made once on entering the block and once more at the test
ErrorCheckRerolled(hit) ==
    <<[kind |-> "error_check", hit |-> hit], [kind |-> "error_check", hit |-> hit]>>

\* `if random.randint(1, 10) == 1:`, lines 308 and 451: one draw, and whether it
\* came out as 1
ErrorCheck(hit) == <<[kind |-> "error_check", hit |-> hit]>>

\* a slip: the error counted once more on the way out
CountErrorTwice(endpoint, error_type) ==
    LET call == MetricCall("error_counter",
                           [endpoint |-> endpoint, method |-> "GET",
                            error_type |-> error_type])
    IN  <<call, call>>

\* error_counter.add(1, {..., "error_type": error_type}), lines 319 and 470
CountError(endpoint, error_type) ==
    <<MetricCall("error_counter",
                 [endpoint |-> endpoint, method |-> "GET", error_type |-> error_type])>>

\* a slip: the early return of the error branch leaves without recording
RecordResponseTimeOnSuccessOnly(endpoint, status) ==
    IF status = "error" THEN <<>>
    ELSE <<MetricCall("response_time_histogram",
                      [endpoint |-> endpoint, method |-> "GET", status |-> status])>>

\* response_time_histogram.record(elapsed, {..., "status": status}),
\* lines 346, 357, 509 and 553
RecordResponseTime(endpoint, status) ==
    <<MetricCall("response_time_histogram",
                 [endpoint |-> endpoint, method |-> "GET", status |-> status])>>

\* a slip: the body names the kind of failure by a fixed word
ErrorResponseGeneric(error, error_type, error_message, request_id) ==
    Jsonify([error |-> error, error_type |-> "internal_error",
             error_message |-> error_message, request_id |-> request_id], 500)

\* the body and status of the error responses, lines 348-353 and 511-516
ErrorResponse(error, error_type, error_message, request_id) ==
    Jsonify([error |-> error, error_type |-> error_type,
             error_message |-> error_message, request_id |-> request_id], 500)

\* hit: random.randint(1, 10) == 1; error_type: what random.choice draws on a hit;
\* sysconf_raises / getloadavg_raises: whether os.sysconf (lines 287-288) and
\* os.getloadavg (line 337) raise on this platform
hello(gctx, req, stk, hit, error_type, sysconf_raises, getloadavg_raises) ==
    LET started ==
            LogCall("DEBUG", <<"Processing root endpoint request">>,
                    << <<"request_id", gctx.request_id>>,
                       <<"endpoint", "root">>,
                       <<"event_type", "processing_started">> >>,
                    NoExcInfo, gctx, req, stk)
            \o <<MetricCall("request_counter", [endpoint |-> "root", method |-> "GET"])>>
        runtime ==
            LogCall("INFO", <<"Application runtime details">>,
                    << <<"python_version", Opaque>>,
                       <<"platform", Opaque>>,
                       <<"memory_info", Opaque>>,
                       <<"event_type", "runtime_info">> >>,
                    NoExcInfo, gctx, req, stk)
        delay ==
            LogCall("INFO", <<"Simulated processing delay">>,
                    << <<"request_id", gctx.request_id>>,
                       <<"processing_time", Opaque>>,
                       <<"event_type", "processing_delay">> >>,
                    NoExcInfo, gctx, req, stk)
        error_message == RootErrorDetails[error_type]
        failed ==
            CountError("root", error_type)
            \o LogCall("ERROR", <<"Error in root endpoint", error_message>>,
                       << <<"request_id", gctx.request_id>>,
                          <<"error_type", error_type>>,
                          <<"error_details", error_message>>,
                          <<"endpoint", "root">>,
                          <<"event_type", "error_generated">> >>,
                       NoExcInfo, gctx, req, stk)
        diagnostics ==
            LogCall("DEBUG", <<"Diagnostic information for troubleshooting">>,
                    << <<"request_id", gctx.request_id>>,
                       <<"system_load", Opaque>>,
                       <<"database_connections", Opaque>>,
                       <<"cache_hit_ratio", Opaque>>,
                       <<"event_type", "error_diagnostics">> >>,
                    NoExcInfo, gctx, req, stk)
        completed ==
            LogCall("DEBUG", <<"Successfully processed root endpoint request">>,
                    << <<"request_id", gctx.request_id>>,
                       <<"processing_time", Opaque>>,
                       <<"event_type", "processing_completed">> >>,
                    NoExcInfo, gctx, req, stk)
    IN  IF sysconf_raises THEN
            \* the arguments of the logger.info call at line 281 are evaluated first
            Outcome(started, stk, InternalServerError)
        ELSE IF hit /\ getloadavg_raises THEN
            \* the arguments of the logger.debug call at line 333 are evaluated first
            Outcome(started \o runtime \o delay \o ErrorCheck(hit) \o failed,
                    stk, InternalServerError)
        ELSE IF hit THEN
            Outcome(started \o runtime \o delay \o ErrorCheck(hit) \o failed
                        \o diagnostics
                        \o RecordResponseTime("root", "error"),
                    stk,
                    ErrorResponse("Random error occurred", error_type, error_message,
                                  gctx.request_id))
        ELSE
            Outcome(started \o runtime \o delay \o ErrorCheck(hit)
                        \o RecordResponseTime("root", "success") \o completed,
                    stk,
                    Jsonify([message |-> "Hello from the OpenTelemetry Demo App!",
                             timestamp |-> Opaque,
                             request_id |-> gctx.request_id], 200))

---------------------------------------------------------------------------
(* get_data, app.py lines 374-564 *)

\* lines 452-458: the kinds random.choice draws from
DataErrorTypes ==
    {"connection_timeout", "record_not_found", "schema_validation_error",
     "permission_denied", "rate_limit_exceeded"}

\* lines 460-466
DataErrorDetails ==
    [connection_timeout |-> "Database connection timed out after 3 seconds",
     record_not_found |->
        "Requested record with ID 'txn-12345' was not found in the collection",
     schema_validation_error |->
        "Response payload failed schema validation: missing required field 'transaction_date'",
     permission_denied |->
        "User 'api-user' lacks permission 'READ_SENSITIVE_DATA' for this resource",
     rate_limit_exceeded |->
        "API rate limit of 100 requests per minute exceeded, retry after 24 seconds"]

\* span.set_attribute(key, value) on the innermost open span
SetAttribute(stk, key, value) ==
    [stk EXCEPT ![Len(stk)].attributes = Put(@, key, value)]

\* span.set_status(trace.StatusCode.ERROR) on the innermost open span
SetStatusError(stk) == [stk EXCEPT ![Len(stk)].status = "ERROR"]

\* span.record_exception(exc) on the innermost open span
RecordException(stk, exc) ==
    [stk EXCEPT ![Len(stk)].exceptions = Append(@, exc)]

\* a slip: the span is ended but the context it was attached to is not detached
PopWithoutDetach(stk) == stk

\* leaving a `with tracer.start_as_current_span(...)` block: the span ends and
\* the span that was current before it is current again
Pop(stk) == SubSeq(stk, 1, Len(stk) - 1)

\* lines 376-420: up to the start of the sub-operation
get_data_process(r, gctx, req, stk) ==
    LET started ==
            LogCall("INFO", <<"Processing data endpoint request">>,
                    << <<"request_id", gctx.request_id>>,
                       <<"endpoint", "api_data">>,
                       <<"event_type", "processing_started">> >>,
                    NoExcInfo, gctx, req, stk)
            \o <<MetricCall("request_counter", [endpoint |-> "api_data", method |-> "GET"])>>
        span == StartSpan(r, stk, "process-data")
        inSpan == SetAttribute(SetAttribute(Append(stk, span), "component", "data_processor"),
                               "request_id", gctx.request_id)
        spanStarted ==
            LogCall("DEBUG", <<"Started data processing span">>,
                    << <<"request_id", gctx.request_id>>,
                       <<"span_name", "process-data">>,
                       <<"event_type", "span_started">> >>,
                    NoExcInfo, gctx, req, inSpan)
        query ==
            LogCall("INFO", <<"Database query executed">>,
                    << <<"request_id", gctx.request_id>>,
                       <<"query_time", Opaque>>,
                       <<"db_server", "postgres-primary">>,
                       <<"db_name", "otel_demo">>,
                       <<"query_type", "SELECT">>,
                       <<"rows_returned", Opaque>>,
                       <<"event_type", "database_query">> >>,
                    NoExcInfo, gctx, req, inSpan)
    IN  Outcome(started \o <<SpanStart(span)>> \o spanStarted \o query, inSpan, NoResponse)

\* lines 423-448: the sub-operation up to the error check
get_data_fetch(r, gctx, req, stk) ==
    LET child_span == StartSpan(r, stk, "fetch-data-items")
        inChild == SetAttribute(Append(stk, child_span), "items_count", Opaque)
        fetching ==
            LogCall("DEBUG", <<"Fetching data items">>,
                    << <<"request_id", gctx.request_id>>,
                       <<"items_count", Opaque>>,
                       <<"cache_status", Opaque>>,
                       <<"event_type", "data_fetch">> >>,
                    NoExcInfo, gctx, req, inChild)
        fetched ==
            LogCall("INFO", <<"Data items fetched">>,
                    << <<"request_id", gctx.request_id>>,
                       <<"fetch_time", Opaque>>,
                       <<"items_count", Opaque>>,
                       <<"event_type", "data_fetch_completed">> >>,
                    NoExcInfo, gctx, req, inChild)
    IN  Outcome(<<SpanStart(child_span)>> \o fetching \o fetched, inChild, NoResponse)

\* lines 450-564: the error check inside the child span and what follows it.
\* stk holds the parent and, innermost, the child.
get_data_finish(gctx, req, stk, hit, error_type) ==
    LET error_message == DataErrorDetails[error_type]
        failed ==
            CountError("api_data", error_type)
            \o LogCall("ERROR", <<"Error fetching data items", error_message>>,
                       << <<"request_id", gctx.request_id>>,
                          <<"error_type", error_type>>,
                          <<"error_details", error_message>>,
                          <<"source_component", "data_service">>,
                          <<"items_processed", Opaque>>,
                          <<"retry_count", Opaque>>,
                          <<"event_type", "data_fetch_error">> >>,
                       NoExcInfo, gctx, req, stk)
        marked == RecordException(SetStatusError(stk),
                                  <<"Failed to fetch data items", error_message>>)
        technical ==
            LogCall("DEBUG", <<"Technical error details">>,
                    << <<"request_id", gctx.request_id>>,
                       <<"stack_snapshot", Opaque>>,
                       <<"connection_id", Opaque>>,
                       <<"sql_state", IF error_type = "connection_timeout"
                                      THEN "08006" ELSE "42P01">>,
                       <<"driver_version", "psycopg2 2.9.3">>,
                       <<"event_type", "technical_error_details">> >>,
                    NoExcInfo, gctx, req, marked)
        \* the two with blocks are left, innermost first
        leave(s) == <<SpanEnd(GetCurrentSpan(s)), SpanEnd(GetCurrentSpan(Pop(s)))>>
        outside == Pop(Pop(stk))
        returning ==
            LogCall("INFO", <<"Returning data items">>,
                    << <<"request_id", gctx.request_id>>,
                       <<"items_count", Opaque>>,
                       <<"categories", Opaque>>,
                       <<"event_type", "data_returned">> >>,
                    NoExcInfo, gctx, req, outside)
        completed ==
            LogCall("DEBUG", <<"Successfully processed data endpoint request">>,
                    << <<"request_id", gctx.request_id>>,
                       <<"processing_time", Opaque>>,
                       <<"event_type", "processing_completed">> >>,
                    NoExcInfo, gctx, req, outside)
    IN  IF hit THEN
            Outcome(ErrorCheck(hit) \o failed \o technical
                        \o RecordResponseTime("api_data", "error") \o leave(marked),
                    outside,
                    ErrorResponse("Failed to process data", error_type, error_message,
                                  gctx.request_id))
        ELSE
            Outcome(ErrorCheck(hit) \o leave(stk) \o returning
                        \o RecordResponseTime("api_data", "success") \o completed,
                    outside,
                    Jsonify([items |-> Opaque, timestamp |-> Opaque,
                             request_id |-> gctx.request_id, count |-> Opaque,
                             page |-> 1, total_pages |-> Opaque], 200))

---------------------------------------------------------------------------
(* health, app.py lines 566-591 *)

health(gctx, req, stk) ==
    Outcome(LogCall("INFO", <<"Health check executed">>,
                    << <<"request_id", gctx.request_id>>,
                       <<"system_stats", Opaque>>,
                       <<"event_type", "health_check">> >>,
                    NoExcInfo, gctx, req, stk),
            stk,
            Jsonify([status |-> "healthy", timestamp |-> Opaque,
                     version |-> "1.0.0", system_stats |-> Opaque], 200))

---------------------------------------------------------------------------
(* log_sample, app.py lines 593-660 *)

\* sys.exc_info() inside the handler of `1 / 0`
DivisionByZero ==
    [set |-> TRUE, type |-> "ZeroDivisionError", message |-> "division by zero",
     traceback |-> <<"Traceback (most recent call last)", "division_by_zero = 1 / 0",
                     "ZeroDivisionError: division by zero">>]

log_sample(gctx, req, stk) ==
    Outcome(
        LogCall("DEBUG",
                <<"This is a DEBUG level message with detailed diagnostic information">>,
                << <<"request_id", gctx.request_id>>,
                   <<"debug_info", Opaque>>,
                   <<"event_type", "sample_debug">> >>,
                NoExcInfo, gctx, req, stk)
        \o LogCall("INFO", <<"This is an INFO level message about normal operation">>,
                << <<"request_id", gctx.request_id>>,
                   <<"user_id", Opaque>>,
                   <<"action", "sample_info_log">>,
                   <<"event_type", "sample_info">> >>,
                NoExcInfo, gctx, req, stk)
        \o LogCall("WARNING", <<"This is a WARNING level message about something unusual">>,
                << <<"request_id", gctx.request_id>>,
                   <<"warning_type", "resource_warning">>,
                   <<"resource_usage", Opaque>>,
                   <<"threshold", Opaque>>,
                   <<"event_type", "sample_warning">> >>,
                NoExcInfo, gctx, req, stk)
        \o LogCall("ERROR",
                <<"This is an ERROR level message about something that failed">>,
                << <<"request_id", gctx.request_id>>,
                   <<"error_code", Opaque>>,
                   <<"component", "sample_component">>,
                   <<"operation", "sample_operation">>,
                   <<"event_type", "sample_error">> >>,
                NoExcInfo, gctx, req, stk)
        \o LogCall("CRITICAL",
                <<"This is a CRITICAL level message with exception information">>,
                << <<"request_id", gctx.request_id>>,
                   <<"critical_code", "SYSTEM_FAILURE">>,
                   <<"impact", "high">>,
                   <<"event_type", "sample_critical">> >>,
                DivisionByZero, gctx, req, stk),
        stk,
        Jsonify([message |-> "Sample logs generated at all levels",
                 timestamp |-> Opaque, request_id |-> gctx.request_id], 200))

---------------------------------------------------------------------------
(* The request lifecycle as actions *)

\* the running totals of instrument `name` after the metric calls among events
RECURSIVE Recorded(_, _, _, _)
Recorded(instrument, name, events, i) ==
    IF i > Len(events) THEN instrument
    ELSE Recorded(IF events[i].kind = "metric" /\ events[i].instrument = name
                  THEN Accumulate(instrument, events[i].attributes, 1)
                  ELSE instrument,
                  name, events, i + 1)

\* request r performs the handler run `ran` and moves to `nextpc`
Perform(r, ran, nextpc) ==
    \E out \in {ran} :
        /\ history' = [history EXCEPT ![r] = @ \o out.events]
        /\ stack' = [stack EXCEPT ![r] = out.stack]
        /\ response' = [response EXCEPT ![r] = out.response]
        /\ request_counter' = Recorded(request_counter, "request_counter", out.events, 1)
        /\ response_time_histogram' =
               Recorded(response_time_histogram, "response_time_histogram", out.events, 1)
        /\ error_counter' = Recorded(error_counter, "error_counter", out.events, 1)
        /\ pc' = [pc EXCEPT ![r] = nextpc]

\* A request arrives.  FlaskInstrumentor().instrument_app(app) (line 216) wraps
\* the application: unless the process is configured to leave its urls out of
\* the instrumentation, a server span is current for the whole request.
Receive(r) ==
    /\ pc[r] = "new"
    /\ \E p \in Paths :
         LET span == StartSpan(r, <<>>, "server")
         IN  /\ path' = [path EXCEPT ![r] = p]
             /\ stack' = [stack EXCEPT ![r] = IF instrumented THEN <<span>> ELSE <<>>]
             /\ history' = [history EXCEPT ![r] =
                               IF instrumented THEN <<SpanStart(span)>> ELSE <<>>]
    /\ pc' = [pc EXCEPT ![r] = "before"]
    /\ UNCHANGED <<g, response, request_counter, response_time_histogram,
                   error_counter, instrumented, todo, loadVars, formatVars>>

BeforeRequest(r) ==
    /\ pc[r] = "before"
    /\ LET done == before_request(r, Request(r), stack[r])
       IN  /\ g' = [g EXCEPT ![r] = done.g]
           /\ history' = [history EXCEPT ![r] = @ \o done.events]
    /\ pc' = [pc EXCEPT ![r] = "dispatch"]
    /\ UNCHANGED <<path, stack, response, request_counter, response_time_histogram,
                   error_counter, instrumented, todo, loadVars, formatVars>>

Hello(r) ==
    /\ pc[r] = "dispatch"
    /\ path[r] = "/"
    /\ \/ \E error_type \in RootErrorTypes :
            Perform(r, hello(g[r], Request(r), stack[r], TRUE, error_type, FALSE, FALSE),
                    "after")
       \/ Perform(r, hello(g[r], Request(r), stack[r], FALSE, "none", FALSE, FALSE),
                  "after")
    /\ UNCHANGED <<path, g, instrumented, todo, loadVars, formatVars>>

\* hello on a platform where os.sysconf or os.getloadavg raises
HelloRaises(r) ==
    /\ pc[r] = "dispatch"
    /\ path[r] = "/"
    /\ \/ Perform(r, hello(g[r], Request(r), stack[r], FALSE, "none", TRUE, FALSE),
                  "after")
       \/ \E error_type \in RootErrorTypes :
            Perform(r, hello(g[r], Request(r), stack[r], TRUE, error_type, FALSE, TRUE),
                    "after")
    /\ UNCHANGED <<path, g, instrumented, todo, loadVars, formatVars>>

GetDataProcess(r) ==
    /\ pc[r] = "dispatch"
    /\ path[r] = "/api/data"
    /\ Perform(r, get_data_process(r, g[r], Request(r), stack[r]), "process-data")
    /\ UNCHANGED <<path, g, instrumented, todo, loadVars, formatVars>>

GetDataFetch(r) ==
    /\ pc[r] = "process-data"
    /\ Perform(r, get_data_fetch(r, g[r], Request(r), stack[r]), "fetch-data-items")
    /\ UNCHANGED <<path, g, instrumented, todo, loadVars, formatVars>>

GetDataFinish(r) ==
    /\ pc[r] = "fetch-data-items"
    /\ \/ \E error_type \in DataErrorTypes :
            Perform(r, get_data_finish(g[r], Request(r), stack[r], TRUE, error_type),
                    "after")
       \/ Perform(r, get_data_finish(g[r], Request(r), stack[r], FALSE, "none"), "after")
    /\ UNCHANGED <<path, g, instrumented, todo, loadVars, formatVars>>

Health(r) ==
    /\ pc[r] = "dispatch"
    /\ path[r] = "/health"
    /\ Perform(r, health(g[r], Request(r), stack[r]), "after")
    /\ UNCHANGED <<path, g, instrumented, todo, loadVars, formatVars>>

LogSample(r) ==
    /\ pc[r] = "dispatch"
    /\ path[r] = "/logs/sample"
    /\ Perform(r, log_sample(g[r], Request(r), stack[r]), "after")
    /\ UNCHANGED <<path, g, instrumented, todo, loadVars, formatVars>>

AfterRequest(r) ==
    /\ pc[r] = "after"
    /\ history' = [history EXCEPT ![r] =
                      @ \o after_request(response[r], g[r], Request(r), stack[r])]
    /\ pc' = [pc EXCEPT ![r] = "responded"]
    /\ UNCHANGED <<path, g, stack, response, request_counter, response_time_histogram,
                   error_counter, instrumented, todo, loadVars, formatVars>>

AppInit ==
    /\ pc = [r \in Requests |-> "new"]
    /\ path = [r \in Requests |-> "none"]
    /\ g = [r \in Requests |-> EmptyDict]
    /\ stack = [r \in Requests |-> <<>>]
    /\ history = [r \in Requests |-> <<>>]
    /\ response = [r \in Requests |-> NoResponse]
    /\ request_counter = EmptyDict
    /\ response_time_histogram = EmptyDict
    /\ error_counter = EmptyDict
    /\ instrumented \in BOOLEAN
    /\ todo = [r \in Requests |-> NoTodo]

\* the steps the serving thread of request r takes once the request has arrived
Serve(r) ==
    \/ BeforeRequest(r)
    \/ Hello(r)
    \/ GetDataProcess(r)
    \/ GetDataFetch(r)
    \/ GetDataFinish(r)
    \/ Health(r)
    \/ LogSample(r)
    \/ AfterRequest(r)

---------------------------------------------------------------------------
(* The handlers followed from one instrument call to the next *)

\* The instruments are shared by every request thread, and a handler makes up
\* to three calls on them with other statements in between: here a handler run
\* is performed in parts, each ending with an instrument call that another one
\* follows, so that the state between two instrument calls of one request is
\* seen by the other requests.

\* the number of leading events of a run that make its next part
NextPart(events) ==
    LET cuts == {i \in 1..Len(events) :
                    /\ events[i].kind = "metric"
                    /\ \E j \in (i + 1)..Len(events) : events[j].kind = "metric"}
    IN  IF cuts = {} THEN Len(events)
        ELSE CHOOSE i \in cuts : \A j \in cuts : i <= j

\* the handler code request r is about to run, with every outcome of its
\* random draws, and the position it leaves the request in
HandlerRuns(r) ==
    IF pc[r] = "dispatch" /\ path[r] = "/" THEN
        {[run |-> hello(g[r], Request(r), stack[r], TRUE, error_type, FALSE, FALSE),
          nextpc |-> "after"] : error_type \in RootErrorTypes}
        \cup {[run |-> hello(g[r], Request(r), stack[r], FALSE, "none", FALSE, FALSE),
               nextpc |-> "after"]}
    ELSE IF pc[r] = "dispatch" /\ path[r] = "/api/data" THEN
        {[run |-> get_data_process(r, g[r], Request(r), stack[r]),
          nextpc |-> "process-data"]}
    ELSE IF pc[r] = "process-data" THEN
        {[run |-> get_data_fetch(r, g[r], Request(r), stack[r]),
          nextpc |-> "fetch-data-items"]}
    ELSE IF pc[r] = "fetch-data-items" THEN
        {[run |-> get_data_finish(g[r], Request(r), stack[r], TRUE, error_type),
          nextpc |-> "after"] : error_type \in DataErrorTypes}
        \cup {[run |-> get_data_finish(g[r], Request(r), stack[r], FALSE, "none"),
               nextpc |-> "after"]}
    ELSE IF pc[r] = "dispatch" /\ path[r] = "/health" THEN
        {[run |-> health(g[r], Request(r), stack[r]), nextpc |-> "after"]}
    ELSE IF pc[r] = "dispatch" /\ path[r] = "/logs/sample" THEN
        {[run |-> log_sample(g[r], Request(r), stack[r]), nextpc |-> "after"]}
    ELSE {}

\* request r performs the next part of `left`, what is left of its handler run
Advance(r, left) ==
    LET n == NextPart(left.events)
        part == SubSeq(left.events, 1, n)
    IN  /\ history' = [history EXCEPT ![r] = @ \o part]
        /\ request_counter' = Recorded(request_counter, "request_counter", part, 1)
        /\ response_time_histogram' =
               Recorded(response_time_histogram, "response_time_histogram", part, 1)
        /\ error_counter' = Recorded(error_counter, "error_counter", part, 1)
        /\ IF n = Len(left.events)
           THEN /\ stack' = [stack EXCEPT ![r] = left.stack]
                /\ response' = [response EXCEPT ![r] = left.response]
                /\ pc' = [pc EXCEPT ![r] = left.nextpc]
                /\ todo' = [todo EXCEPT ![r] = NoTodo]
           ELSE /\ todo' = [todo EXCEPT ![r] =
                               [left EXCEPT !.events = SubSeq(left.events, n + 1,
                                                              Len(left.events))]]
                /\ UNCHANGED <<stack, response, pc>>

\* the handler code is entered
HandlerBegin(r) ==
    /\ todo[r] = NoTodo
    /\ \E h \in HandlerRuns(r) :
          Advance(r, [events |-> h.run.events, stack |-> h.run.stack,
                      response |-> h.run.response, nextpc |-> h.nextpc])
    /\ UNCHANGED <<path, g, instrumented, loadVars, formatVars>>

\* the handler code goes on after an instrument call
HandlerResume(r) ==
    /\ todo[r] # NoTodo
    /\ Advance(r, todo[r])
    /\ UNCHANGED <<path, g, instrumented, loadVars, formatVars>>

---------------------------------------------------------------------------
(* The load generator, load_generator.py *)

\* line 18, the default of REQUESTS_PER_SECOND
REQUESTS_PER_SECOND == 10

\* lines 24-27
Endpoints == {"/", "/api/data"}

\* what requests.get(url, timeout=5) can raise, with the base classes up to
\* BaseException
BaseClass ==
    [ConnectTimeout |-> "ConnectionError", ReadTimeout |-> "Timeout",
     ConnectionError |-> "RequestException", Timeout |-> "RequestException",
     RequestException |-> "OSError", OSError |-> "Exception",
     Exception |-> "BaseException"]

TransportErrors == {"ConnectionError", "ConnectTimeout", "ReadTimeout"}

RECURSIVE IsSubclass(_, _)
IsSubclass(cls, of) ==
    \/ cls = of
    \/ cls \in DOMAIN BaseClass /\ IsSubclass(BaseClass[cls], of)

\* a slip: `except requests.Timeout as e`
CaughtTimeoutOnly(exc) == IsSubclass(exc, "Timeout")

\* line 36: `except Exception as e`
Caught(exc) == IsSubclass(exc, "Exception")

\* what requests.get can end with: a status code of the application when it is
\* reachable, a transport error at any time (a timeout can hit a reachable target)
GetResults(up) ==
    {[raised |-> TRUE, exc |-> e, status_code |-> 0] : e \in TransportErrors}
    \cup (IF up THEN {[raised |-> FALSE, exc |-> "none", status_code |-> c] : c \in {200, 500}}
          ELSE {})

NoResult == [raised |-> FALSE, exc |-> "none", status_code |-> 0]

NoLine == [level |-> "none", text |-> "none", url |-> "none"]

\* main(), lines 47-58: the test request and its try/except
MainProbe ==
    /\ mainpc = "start"
    /\ \E result \in GetResults(targetUp) :
         mainpc' = IF result.raised /\ ~Caught(result.exc) THEN "terminated" ELSE "submit"
    /\ UNCHANGED <<wpc, wurl, wret, wlog, wresult, wfailed, targetUp, appVars, formatVars>>

\* main(), lines 60-63: every worker is submitted to a pool of NUM_WORKERS threads
MainSubmit ==
    /\ mainpc = "submit"
    /\ mainpc' = "waiting"
    /\ wpc' = [w \in Workers |-> "make_request"]
    /\ UNCHANGED <<wurl, wret, wlog, wresult, wfailed, targetUp, appVars, formatVars>>

\* make_request(), lines 23-33: the endpoint is drawn, the request logged and sent
WorkerSend(w) ==
    /\ wpc[w] = "make_request"
    /\ \E endpoint \in Endpoints :
         /\ wurl' = [wurl EXCEPT ![w] = endpoint]
         /\ wlog' = [wlog EXCEPT ![w] =
                        [level |-> "INFO", text |-> "Sending request", url |-> endpoint]]
    /\ wpc' = [wpc EXCEPT ![w] = "requests.get"]
    /\ UNCHANGED <<mainpc, wret, wresult, wfailed, targetUp, appVars, formatVars>>

\* make_request(), lines 33-38: requests.get returns or raises
WorkerReceive(w) ==
    /\ wpc[w] = "requests.get"
    /\ \E result \in GetResults(targetUp) :
         /\ wresult' = [wresult EXCEPT ![w] = result]
         /\ wfailed' = [wfailed EXCEPT ![w] = @ \/ result.raised]
         /\ IF ~result.raised THEN
               /\ wlog' = [wlog EXCEPT ![w] =
                              [level |-> "INFO", text |-> "Response", url |-> wurl[w]]]
               /\ wret' = [wret EXCEPT ![w] = result.status_code]
               /\ wpc' = [wpc EXCEPT ![w] = "sleep"]
            ELSE IF Caught(result.exc) THEN
               /\ wlog' = [wlog EXCEPT ![w] =
                              [level |-> "ERROR", text |-> "Error sending request",
                               url |-> wurl[w]]]
               /\ wret' = [wret EXCEPT ![w] = 0]
               /\ wpc' = [wpc EXCEPT ![w] = "sleep"]
            ELSE
               \* the exception leaves make_request and worker: the thread ends
               /\ wpc' = [wpc EXCEPT ![w] = "terminated"]
               /\ UNCHANGED <<wlog, wret>>
    /\ UNCHANGED <<mainpc, wurl, targetUp, appVars, formatVars>>

\* worker(), lines 43-45: make_request has returned (its value is dropped, its
\* locals are gone); the sleep between two requests, then the loop goes on
WorkerSleep(w) ==
    /\ wpc[w] = "sleep"
    /\ wpc' = [wpc EXCEPT ![w] = IF REQUESTS_PER_SECOND = 0 THEN "terminated"
                                 ELSE "make_request"]
    /\ wurl' = [wurl EXCEPT ![w] = "none"]
    /\ wret' = [wret EXCEPT ![w] = -1]
    /\ wresult' = [wresult EXCEPT ![w] = NoResult]
    /\ UNCHANGED <<mainpc, wlog, wfailed, targetUp, appVars, formatVars>>

\* the environment: the target application comes up or goes away
TargetChanges ==
    /\ targetUp' = ~targetUp
    /\ UNCHANGED <<mainpc, wpc, wurl, wret, wlog, wresult, wfailed, appVars, formatVars>>

LoadInit ==
    /\ mainpc = "start"
    /\ wpc = [w \in Workers |-> "not_started"]
    /\ wurl = [w \in Workers |-> "none"]
    /\ wret = [w \in Workers |-> -1]
    /\ wlog = [w \in Workers |-> NoLine]
    /\ wresult = [w \in Workers |-> NoResult]
    /\ wfailed = [w \in Workers |-> FALSE]
    /\ targetUp = FALSE

Work(w) == WorkerSend(w) \/ WorkerReceive(w) \/ WorkerSleep(w)

---------------------------------------------------------------------------
(* EcsJsonFormatter.format on its own: one log call with any extra fields *)

\* the keys the formatter names at lines 139-148
RecognizedKeys == {"event_type", "error_type", "error_details", "duration_ms"}

\* two keys the formatter does not name, as the callers pass them
CustomKeys == {"request_id", "endpoint"}

\* the values a caller can pass for a key
ExtraValues(key) ==
    IF key = "duration_ms" THEN {1, 250}
    ELSE IF key = "event_type" THEN {"error_generated"}
    ELSE IF key = "error_type" THEN {"database_error"}
    ELSE IF key = "error_details" THEN {"Failed to connect to database after 3 retries"}
    ELSE IF key = "request_id" THEN {Uuid4(1)}
    ELSE {"root"}

\* the keys of a dict literal written as a sequence of items
KeysOf(m) == {m[i][1] : i \in 1..Len(m)}

\* extra={"extra_fields": {...}}: the dict literals of at most n items over the
\* keys, each key once with one of its values, in every order of writing them
RECURSIVE ExtraFieldsUpTo(_, _)
ExtraFieldsUpTo(keys, n) ==
    IF n = 0 THEN {<<>>}
    ELSE LET shorter == ExtraFieldsUpTo(keys, n - 1)
         IN  shorter \cup
             UNION {UNION {{Append(m, <<k, v>>) : v \in ExtraValues(k)} :
                              k \in keys \ KeysOf(m)} :
                       m \in {x \in shorter : Len(x) = n - 1}}

ExtraFieldsMappings == ExtraFieldsUpTo(RecognizedKeys \cup CustomKeys, MaxExtraFields)

\* the exception a log call can carry with exc_info=True
ExcInfos == {NoExcInfo, DivisionByZero}

\* the request context the call is made in
FormatContext == [request_id |-> Uuid4(1), start_time |-> Opaque]

\* a log call is about to reach the handler: logger.error(msg, exc_info=...,
\* extra={"extra_fields": ...})
FormatInit ==
    /\ fmt_pc = "emit"
    /\ \E extra_fields \in ExtraFieldsMappings, exc_info \in ExcInfos :
          fmt_record = [levelname |-> "ERROR", msg |-> <<"message">>,
                        exc_info |-> exc_info, extra_fields |-> extra_fields]
    /\ fmt_log_record = EmptyDict

\* StreamHandler.emit calls EcsJsonFormatter.format(record)
FormatRecord ==
    /\ fmt_pc = "emit"
    /\ fmt_log_record' = Format(fmt_record, FormatContext,
                                [method |-> "GET", path |-> "/"], <<>>)
    /\ fmt_pc' = "formatted"
    /\ UNCHANGED <<fmt_record, appVars, loadVars>>

\* no log call is followed on its own while the application or the load
\* generator is
FormatIdle ==
    /\ fmt_pc = "idle"
    /\ fmt_record = [levelname |-> "INFO", msg |-> <<>>, exc_info |-> NoExcInfo,
                     extra_fields |-> <<>>]
    /\ fmt_log_record = EmptyDict

---------------------------------------------------------------------------
(* Specifications *)

Init == AppInit /\ LoadInit /\ FormatIdle

\* the application serving requests
Next == \E r \in Requests : Receive(r) \/ Serve(r)

Spec == Init /\ [][Next]_vars

\* every request that has arrived is served by a thread that keeps running
FairSpec == Spec /\ \A r \in Requests : WF_vars(Serve(r))

\* the application on a platform where the system calls made while building
\* log fields can raise
FaultNext == Next \/ \E r \in Requests : HelloRaises(r)

FaultSpec == Init /\ [][FaultNext]_vars

\* the load generator
LoadNext ==
    \/ MainProbe
    \/ MainSubmit
    \/ \E w \in Workers : Work(w)
    \/ TargetChanges

LoadSpec == Init /\ [][LoadNext]_vars

\* main and every worker thread keep being scheduled
LoadFairSpec ==
    LoadSpec /\ WF_vars(MainProbe) /\ WF_vars(MainSubmit)
             /\ \A w \in Workers : WF_vars(Work(w))

\* the application with its handlers followed from one instrument call to the
\* next, under the instrumentation line 216 sets up
StepInit == Init /\ instrumented

StepNext ==
    \E r \in Requests :
        \/ Receive(r)
        \/ BeforeRequest(r)
        \/ HandlerBegin(r)
        \/ HandlerResume(r)
        \/ AfterRequest(r)

StepSpec == StepInit /\ [][StepNext]_vars

\* the formatter applied to one record
FormatNext == FormatRecord

\* the application and the load generator at rest, one record about to be
\* formatted
FormatStart == AppInit /\ LoadInit /\ FormatInit

FormatSpec == FormatStart /\ [][FormatNext]_vars

---------------------------------------------------------------------------
(* Reading a request's history *)

\* the lines request r wrote to the log stream
Lines(r) == SelectSeq(history[r], LAMBDA e : e.kind = "line")

\* the structured records among them, as the ECS handler encoded them
LogRecords(r) ==
    LET structured == SelectSeq(Lines(r), LAMBDA e : e.fmt = "json")
    IN  [i \in 1..Len(structured) |-> structured[i].json]

\* the logger calls request r made
LogCalls(r) == SelectSeq(history[r], LAMBDA e : e.kind = "log_call")

\* the calls request r made on one instrument
MetricCalls(r, name) ==
    SelectSeq(history[r], LAMBDA e : e.kind = "metric" /\ e.instrument = name)

\* the handler of request r has returned its response
Returned(r) == pc[r] \in {"after", "responded"}

Measured(r) == path[r] \in {"/", "/api/data"}

EndpointOf(r) == IF path[r] = "/" THEN "root" ELSE "api_data"

\* the body of the structured error response
IsErrorBody(body) == DOMAIN body = {"error", "error_type", "error_message", "request_id"}

ErrorRecords(r) ==
    SelectSeq(LogRecords(r), LAMBDA rec : rec.log.level = "error")

---------------------------------------------------------------------------
(* C1 *)

\* C1: for every request to / or /api/data, no more than one
\* response_time_histogram observation is ever recorded; once the handler has
\* returned there is exactly one, its status label is "error" exactly when the
\* response status is 500 and "success" exactly when it is 200, and it carries
\* the endpoint of the request.
C1_OneObservationMatchingOutcome ==
    \A r \in Requests :
        Measured(r) =>
            LET obs == MetricCalls(r, "response_time_histogram")
            IN  /\ Len(obs) <= 1
                /\ Returned(r) =>
                     /\ Len(obs) = 1
                     /\ response[r].status_code \in {200, 500}
                     /\ obs[1].attributes.status = "error"
                            <=> response[r].status_code = 500
                     /\ obs[1].attributes.status = "success"
                            <=> response[r].status_code = 200
                     /\ obs[1].attributes.endpoint = EndpointOf(r)

\* one request has answered 500 and another 200, each with its observation
C1_Witness ==
    \E r1, r2 \in Requests :
        /\ Measured(r1) /\ pc[r1] = "responded" /\ response[r1].status_code = 500
        /\ Len(MetricCalls(r1, "response_time_histogram")) = 1
        /\ Measured(r2) /\ pc[r2] = "responded" /\ response[r2].status_code = 200
        /\ Len(MetricCalls(r2, "response_time_histogram")) = 1

---------------------------------------------------------------------------
(* C2 *)

\* C2: for every request to / or /api/data, error_counter is incremented at most
\* once; once the handler has returned it has been incremented exactly once if
\* and only if the response is a 500 with the structured error body and an
\* error-level record was logged, and a 200 response has no increment.
C2_ErrorCountedWithResponse ==
    \A r \in Requests :
        Measured(r) =>
            LET errs == MetricCalls(r, "error_counter")
            IN  /\ Len(errs) <= 1
                /\ Returned(r) =>
                     /\ Len(errs) = 1
                            <=> /\ response[r].status_code = 500
                                /\ IsErrorBody(response[r].body)
                                /\ Len(ErrorRecords(r)) >= 1
                     /\ response[r].status_code = 200 => Len(errs) = 0

\* a request has answered 500 with one increment, another 200 with none
C2_Witness ==
    \E r1, r2 \in Requests :
        /\ Measured(r1) /\ Returned(r1) /\ response[r1].status_code = 500
        /\ Len(MetricCalls(r1, "error_counter")) = 1
        /\ Measured(r2) /\ Returned(r2) /\ response[r2].status_code = 200
        /\ Len(MetricCalls(r2, "error_counter")) = 0

---------------------------------------------------------------------------
(* C3 *)

Catalog(r) == IF path[r] = "/" THEN RootErrorTypes ELSE DataErrorTypes

FixedMessage(r, kind) ==
    IF path[r] = "/" THEN RootErrorDetails[kind] ELSE DataErrorDetails[kind]

\* C3: whenever an error is injected (the error counter was incremented), one
\* kind of the endpoint's catalog is used everywhere: the label of the
\* increment, the error.type of the one error-level record and the error_type
\* of the 500 body are equal; the message of the record and of the body is the
\* fixed message of that kind; the two catalogs share no kind.
C3_OneErrorKind ==
    /\ RootErrorTypes \cap DataErrorTypes = {}
    /\ Cardinality(RootErrorTypes) = 4
    /\ Cardinality(DataErrorTypes) = 5
    /\ \A r \in Requests :
         (Measured(r) /\ Returned(r) /\ Len(MetricCalls(r, "error_counter")) > 0) =>
            LET kind == MetricCalls(r, "error_counter")[1].attributes.error_type
                logged == ErrorRecords(r)
                body == response[r].body
            IN  /\ kind \in Catalog(r)
                /\ response[r].status_code = 500
                /\ IsErrorBody(body)
                /\ body.error_type = kind
                /\ body.error_message = FixedMessage(r, kind)
                /\ Len(logged) = 1
                /\ logged[1].error.type = kind
                /\ logged[1].error.message = FixedMessage(r, kind)

\* an injected error has been answered on / and another on /api/data
C3_Witness ==
    \E r1, r2 \in Requests :
        /\ path[r1] = "/" /\ Returned(r1)
        /\ Len(MetricCalls(r1, "error_counter")) = 1
        /\ response[r1].body.error_type \in RootErrorTypes
        /\ path[r2] = "/api/data" /\ Returned(r2)
        /\ Len(MetricCalls(r2, "error_counter")) = 1
        /\ response[r2].body.error_type \in DataErrorTypes

---------------------------------------------------------------------------
(* C4 *)

\* C4: under any interleaving of the requests' steps, every structured record a
\* request logs, from "Request received" to "Response sent", carries as
\* transaction.id the request_id of that request's own context: the one
\* before_request put into the first record, the one still in g, the one in the
\* response body; and no record carries the id of another request.
C4_OneTransactionId ==
    \A r \in Requests :
        LET recs == LogRecords(r)
        IN  /\ ~HasKey(g[r], "request_id") => recs = <<>>
            /\ HasKey(g[r], "request_id") =>
                 /\ recs # <<>>
                 /\ recs[1].labels.request_id = g[r].request_id
                 /\ \A i \in 1..Len(recs) :
                        /\ HasKey(recs[i], "transaction")
                        /\ recs[i].transaction.id = g[r].request_id
                        /\ \A r2 \in Requests \ {r} :
                              HasKey(g[r2], "request_id") =>
                                  recs[i].transaction.id # g[r2].request_id
                 /\ (Returned(r) /\ HasKey(response[r].body, "request_id")) =>
                        response[r].body.request_id = g[r].request_id

\* two requests are in flight together, each with records and its own id, and
\* one of them has its response
C4_Witness ==
    \E r1, r2 \in Requests :
        /\ r1 # r2
        /\ pc[r1] = "process-data" /\ Len(LogRecords(r1)) >= 2
        /\ pc[r2] = "responded" /\ HasKey(response[r2].body, "request_id")
        /\ Len(LogRecords(r2)) >= 3

---------------------------------------------------------------------------
(* C5 *)

\* the spans open after the first n events of a history, innermost last
RECURSIVE OpenSpans(_, _)
OpenSpans(h, n) ==
    IF n = 0 THEN <<>>
    ELSE LET before == OpenSpans(h, n - 1)
         IN  IF h[n].kind = "span_start" THEN Append(before, h[n])
             ELSE IF h[n].kind = "span_end" THEN SubSeq(before, 1, Len(before) - 1)
             ELSE before

\* the name of the span a record's span.id belongs to must be `name`
InSpanNamed(open, name) == open # <<>> /\ open[Len(open)].name = name

\* C5: every structured record carries the ids of the span that is innermost
\* at the moment of its log call: trace.id (32 hex digits) is the same for all
\* records of the request, span.id (16 hex digits) is that of the innermost
\* open span; "Data items fetched" is stamped with the "fetch-data-items" span,
\* "Database query executed" with its parent "process-data"; a record has no
\* trace and no span object exactly when no span is open.
C5_InnermostSpan ==
    \A r \in Requests :
        \A i \in 1..Len(history[r]) :
            LET e == history[r][i]
                open == OpenSpans(history[r], i - 1)
            IN  (e.kind = "line" /\ e.fmt = "json") =>
                  /\ open = <<>> <=> ~HasKey(e.json, "span")
                  /\ HasKey(e.json, "span") <=> HasKey(e.json, "trace")
                  /\ open # <<>> =>
                       /\ e.json.span.id = Hex(open[Len(open)].span_id, 16)
                       /\ e.json.trace.id = Hex(TraceId(r), 32)
                  /\ e.json.message[1] = "Data items fetched" =>
                       /\ InSpanNamed(open, "fetch-data-items")
                       /\ InSpanNamed(SubSeq(open, 1, Len(open) - 1), "process-data")
                  /\ e.json.message[1] = "Database query executed" =>
                       InSpanNamed(open, "process-data")

\* a request to /api/data has logged inside the parent and inside the child,
\* under a server span, and the two records carry different span ids
C5_Witness ==
    \E r \in Requests :
        /\ pc[r] = "responded"
        /\ instrumented
        /\ \E i, j \in 1..Len(LogRecords(r)) :
              /\ LogRecords(r)[i].message[1] = "Database query executed"
              /\ LogRecords(r)[j].message[1] = "Data items fetched"
              /\ LogRecords(r)[i].span.id # LogRecords(r)[j].span.id
              /\ LogRecords(r)[i].trace.id = LogRecords(r)[j].trace.id

---------------------------------------------------------------------------
(* C6 *)

\* positions in history[r] of the structured "Response sent" record
SentAt(r) ==
    {i \in 1..Len(history[r]) :
        /\ history[r][i].kind = "line"
        /\ history[r][i].fmt = "json"
        /\ history[r][i].json.message[1] = "Response sent"}

C6_Records ==
    \A r \in Requests :
        LET recs == LogRecords(r)
        IN  /\ recs # <<>> => recs[1].message[1] = "Request received"
            /\ pc[r] # "responded" => SentAt(r) = {}
            /\ pc[r] = "responded" =>
                 /\ Cardinality(SentAt(r)) = 1
                 /\ \A p \in SentAt(r) :
                      /\ history[r][p].json.labels.status_code = response[r].status_code
                      /\ history[r][p].json.message[2] = response[r].status_code
                      /\ \A j \in 1..Len(history[r]) :
                           \/ j <= p
                           \/ history[r][j].kind = "line" /\ history[r][j].fmt # "json"
                      /\ Measured(r) =>
                           \E j \in 1..(p - 1) :
                               /\ history[r][j].kind = "metric"
                               /\ history[r][j].instrument = "response_time_histogram"

\* RECEIVED -> PROCESSING -> {SUCCESS, FAILED} -> RESPONDED, in lifecycle positions
C6_Order ==
    \A r \in Requests :
        pc'[r] # pc[r] =>
            <<pc[r], pc'[r]>> \in
                {<<"new", "before">>, <<"before", "dispatch">>, <<"dispatch", "after">>,
                 <<"dispatch", "process-data">>, <<"process-data", "fetch-data-items">>,
                 <<"fetch-data-items", "after">>, <<"after", "responded">>}

\* C6: the first record of a request is "Request received"; the lifecycle
\* positions are passed in order; exactly one "Response sent" record is logged,
\* when the request is responded, after the histogram observation and after
\* every other record of the request, with the status code of the response the
\* handler returned; and every request that arrived is eventually responded.
C6_Lifecycle ==
    /\ []C6_Records
    /\ [][C6_Order]_vars
    /\ \A r \in Requests : (pc[r] = "before") ~> (pc[r] = "responded")

\* one request responded on the injected-error branch, one on the success branch
C6_Witness ==
    \E r1, r2 \in Requests :
        /\ pc[r1] = "responded" /\ Measured(r1) /\ response[r1].status_code = 500
        /\ Cardinality(SentAt(r1)) = 1
        /\ pc[r2] = "responded" /\ Measured(r2) /\ response[r2].status_code = 200
        /\ Cardinality(SentAt(r2)) = 1

---------------------------------------------------------------------------
(* C7 *)

SampleEvents ==
    {"sample_debug", "sample_info", "sample_warning", "sample_error", "sample_critical"}

SampleRecords(r) ==
    SelectSeq(LogRecords(r), LAMBDA rec : rec.event.type \in SampleEvents)

\* C7: a request to /logs/sample that has returned has logged exactly five
\* sample records, at the levels debug, info, warning, error, critical in that
\* order, the critical one with the captured division by zero as error.type,
\* error.message and error.stack_trace, and has answered 200 with
\* {message, timestamp, request_id}.
C7_FiveSeverities ==
    \A r \in Requests :
        (path[r] = "/logs/sample" /\ Returned(r)) =>
            LET samples == SampleRecords(r)
            IN  /\ [i \in 1..Len(samples) |-> samples[i].log.level]
                     = <<"debug", "info", "warning", "error", "critical">>
                /\ samples[Len(samples)].error.type = "ZeroDivisionError"
                /\ samples[Len(samples)].error.message = "division by zero"
                /\ HasKey(samples[Len(samples)].error, "stack_trace")
                /\ response[r].status_code = 200
                /\ DOMAIN response[r].body = {"message", "timestamp", "request_id"}

---------------------------------------------------------------------------
(* C8 *)

\* C8: each logger call of a request has put exactly one line on the log
\* stream, and every line on the stream is a JSON object of the ECS encoder.
C8_OneJsonLinePerCall ==
    \A r \in Requests :
        /\ Len(Lines(r)) = Len(LogCalls(r))
        /\ \A i \in 1..Len(Lines(r)) : Lines(r)[i].fmt = "json"

---------------------------------------------------------------------------
(* C9 *)

\* the responses hello returns when nothing raises while its log fields are built
HelloResponses(r) ==
    {hello(g[r], Request(r), stack[r], TRUE, error_type, FALSE, FALSE).response :
        error_type \in RootErrorTypes}
    \cup {hello(g[r], Request(r), stack[r], FALSE, "none", FALSE, FALSE).response}

\* C9: whatever fails while the fields of a log call are computed, the caller
\* of / gets a response the handler returns when nothing fails.
C9_TelemetryFailureInvisible ==
    \A r \in Requests :
        (path[r] = "/" /\ Returned(r)) => response[r] \in HelloResponses(r)

---------------------------------------------------------------------------
(* C10 *)

C10_Running ==
    \A w \in Workers :
        /\ wpc[w] # "terminated"
        /\ (wpc[w] = "sleep" /\ wresult[w].raised) =>
              /\ wret[w] = 0
              /\ wlog[w] = [level |-> "ERROR", text |-> "Error sending request",
                            url |-> wurl[w]]

\* C10: no worker ever terminates; a request that ends in a transport error
\* makes make_request log the error and return 0; and after every such failure
\* the same worker sends another request, whatever the target does.
C10_WorkerSurvivesFailures ==
    /\ []C10_Running
    /\ \A w \in Workers :
          (wpc[w] = "sleep" /\ wresult[w].raised) ~> (wpc[w] = "requests.get")

\* a worker whose request failed has sent a request again, with a target that
\* has never been reachable, while another worker is handling a failure
C10_Witness ==
    \E w1, w2 \in Workers :
        /\ w1 # w2
        /\ wfailed[w1] /\ wpc[w1] = "requests.get"
        /\ wpc[w2] = "sleep" /\ wresult[w2].raised /\ wret[w2] = 0
        /\ ~targetUp

---------------------------------------------------------------------------
(* C11 *)

\* the value the caller passed for a key of the formatted record's extra fields
Passed(key) ==
    LET extra_fields == fmt_record.extra_fields
    IN  extra_fields[CHOOSE i \in 1..Len(extra_fields) : extra_fields[i][1] = key][2]

\* d[k1][k2] exists and equals v
Holds(d, k1, k2, v) == HasKey(d, k1) /\ HasKey(d[k1], k2) /\ d[k1][k2] = v

\* C11: for every extra-fields mapping passed to a log call (any subset of the
\* keys, in any order, with or without exception info), the formatted record
\* has event_type as event.type, error_type as error.type, error_details as
\* error.message and duration_ms times 1,000,000 as event.duration, none of
\* these four is left in labels, and labels holds exactly the other fields the
\* caller passed, with their values.
C11_RecognizedFieldsPromoted ==
    fmt_pc = "formatted" =>
        LET passed == KeysOf(fmt_record.extra_fields)
            labels == IF HasKey(fmt_log_record, "labels")
                      THEN fmt_log_record.labels ELSE EmptyDict
        IN  /\ "event_type" \in passed =>
                  Holds(fmt_log_record, "event", "type", Passed("event_type"))
            /\ "error_type" \in passed =>
                  Holds(fmt_log_record, "error", "type", Passed("error_type"))
            /\ "error_details" \in passed =>
                  Holds(fmt_log_record, "error", "message", Passed("error_details"))
            /\ "duration_ms" \in passed =>
                  Holds(fmt_log_record, "event", "duration",
                        Passed("duration_ms") * 1000000)
            /\ DOMAIN labels = passed \ RecognizedKeys
            /\ \A key \in DOMAIN labels \cap passed : labels[key] = Passed(key)

---------------------------------------------------------------------------
(* C12 *)

\* positions in history[r] of the error-injection draws of request r
ChecksAt(r) == {i \in 1..Len(history[r]) : history[r][i].kind = "error_check"}

\* the draw at position i of history[r] is made with span `name` innermost
CheckedIn(r, i, name) == InSpanNamed(OpenSpans(history[r], i - 1), name)

\* C12 as claimed: a request to /api/data that has returned has made two
\* error-injection draws, one at the outer level (in "process-data", before
\* the child span) and one inside the child span "fetch-data-items", and it
\* answers 500 exactly when one of them hit.
C12_TwoIndependentChecks ==
    \A r \in Requests :
        (path[r] = "/api/data" /\ Returned(r)) =>
            /\ \E i \in ChecksAt(r) : CheckedIn(r, i, "process-data")
            /\ \E i \in ChecksAt(r) : CheckedIn(r, i, "fetch-data-items")
            /\ response[r].status_code = 500
                   <=> \E i \in ChecksAt(r) : history[r][i].hit

\* C12 amended: a request to /api/data makes exactly one error-injection draw,
\* inside the child span "fetch-data-items" and none at the outer level; no
\* draw is made before the child span is entered; the request answers 500
\* exactly when that one draw hit and 200 exactly when it did not.
C12_OneNestedCheck ==
    \A r \in Requests :
        path[r] = "/api/data" =>
            /\ Cardinality(ChecksAt(r)) <= 1
            /\ ~Returned(r) => ChecksAt(r) = {} /\ response[r] = NoResponse
            /\ Returned(r) =>
                 /\ Cardinality(ChecksAt(r)) = 1
                 /\ \A i \in ChecksAt(r) :
                      /\ CheckedIn(r, i, "fetch-data-items")
                      /\ response[r].status_code = 500 <=> history[r][i].hit
                      /\ response[r].status_code = 200 <=> ~history[r][i].hit

\* one request to /api/data has answered 500 after its one draw hit, another
\* has answered 200 after its one draw did not
C12_Witness ==
    \E r1, r2 \in Requests :
        /\ path[r1] = "/api/data" /\ Returned(r1) /\ response[r1].status_code = 500
        /\ \E i \in ChecksAt(r1) : history[r1][i].hit
        /\ path[r2] = "/api/data" /\ Returned(r2) /\ response[r2].status_code = 200
        /\ \E i \in ChecksAt(r2) : ~history[r2][i].hit

---------------------------------------------------------------------------
(* C13 *)

\* the spans of request r as the handler left them: those it ended, then those
\* still open
SpansOf(r) ==
    LET ended == SelectSeq(history[r], LAMBDA e : e.kind = "span_end")
    IN  [i \in 1..Len(ended) |-> ended[i].span] \o stack[r]

\* the span with identifier id among them
SpanWithId(r, id) ==
    SpansOf(r)[CHOOSE i \in 1..Len(SpansOf(r)) : SpansOf(r)[i].span_id = id]

\* the handler marked the span: status ERROR and an exception recorded on it
MarkedError(span) == span.status = "ERROR" /\ span.exceptions # <<>>

\* the error-injection draw at position i of history[r] leaves the spans of
\* the request as C13 says
SpansFollowCheck(r, i) ==
    LET open == OpenSpans(history[r], i - 1)
    IN  IF history[r][i].hit
        THEN open # <<>> => MarkedError(SpanWithId(r, open[Len(open)].span_id))
        ELSE \A j \in 1..Len(SpansOf(r)) : SpansOf(r)[j].status # "ERROR"

\* C13: on / and on /api/data, once the handler has returned after an injected
\* error, the span that was active at the error check is marked ERROR and has
\* the exception recorded; after a check that did not hit, no span of the
\* request is marked ERROR.
C13_ActiveSpanMarkedError ==
    \A r \in Requests :
        (Measured(r) /\ Returned(r)) =>
            \A i \in ChecksAt(r) : SpansFollowCheck(r, i)

---------------------------------------------------------------------------
(* C14 *)

\* positions in history[r] where a span named `name` is started / ended
StartsAt(r, name) ==
    {i \in 1..Len(history[r]) :
        history[r][i].kind = "span_start" /\ history[r][i].name = name}

EndsAt(r, name) ==
    {i \in 1..Len(history[r]) :
        history[r][i].kind = "span_end" /\ history[r][i].name = name}

\* the identifiers of the spans open after the first n events, innermost last
OpenIds(r, n) ==
    LET open == OpenSpans(history[r], n)
    IN  [i \in 1..Len(open) |-> open[i].span_id]

\* C14: in /api/data every span end closes the span that is innermost at that
\* moment; once the handler has returned, on the success path and on the
\* injected-error path alike, "process-data" and "fetch-data-items" have each
\* been started once and ended once, the child before its parent; right after
\* the child is ended the parent is the active span again; after the parent is
\* ended the open spans are those open before "process-data" was started, and
\* they are the context the handler leaves; both ends come before the
\* "Response sent" record.
C14_SpansClosedInOrder ==
    \A r \in Requests :
        path[r] = "/api/data" =>
            /\ \A i \in 1..Len(history[r]) :
                  history[r][i].kind = "span_end" =>
                      /\ OpenIds(r, i - 1) # <<>>
                      /\ OpenIds(r, i - 1)[Len(OpenIds(r, i - 1))]
                             = history[r][i].span.span_id
            /\ Returned(r) =>
                  /\ Cardinality(StartsAt(r, "process-data")) = 1
                  /\ Cardinality(StartsAt(r, "fetch-data-items")) = 1
                  /\ Cardinality(EndsAt(r, "process-data")) = 1
                  /\ Cardinality(EndsAt(r, "fetch-data-items")) = 1
                  /\ \A sp \in StartsAt(r, "process-data"),
                        ec \in EndsAt(r, "fetch-data-items"),
                        ep \in EndsAt(r, "process-data") :
                        /\ sp < ec /\ ec < ep
                        /\ InSpanNamed(OpenSpans(history[r], ec), "process-data")
                        /\ history[r][ec].span.parent = history[r][ep].span.span_id
                        /\ OpenIds(r, ep) = OpenIds(r, sp - 1)
                        /\ [i \in 1..Len(stack[r]) |-> stack[r][i].span_id]
                               = OpenIds(r, sp - 1)
                        /\ OpenIds(r, Len(history[r])) = OpenIds(r, sp - 1)
                        /\ \A p \in SentAt(r) : ep < p
            /\ pc[r] = "responded" => SentAt(r) # {}

\* under a server span, one request to /api/data has been responded after an
\* injected error and another after a success, each with both spans ended
C14_Witness ==
    /\ instrumented
    /\ \E r1, r2 \in Requests :
        /\ path[r1] = "/api/data" /\ pc[r1] = "responded"
        /\ response[r1].status_code = 500
        /\ EndsAt(r1, "fetch-data-items") # {} /\ EndsAt(r1, "process-data") # {}
        /\ path[r2] = "/api/data" /\ pc[r2] = "responded"
        /\ response[r2].status_code = 200
        /\ EndsAt(r2, "fetch-data-items") # {} /\ EndsAt(r2, "process-data") # {}

---------------------------------------------------------------------------
(* C15 *)

\* the endpoint labels of the two measured routes
MeasuredEndpoints == {"root", "api_data"}

RECURSIVE SumOver(_, _)
SumOver(instrument, keys) ==
    IF keys = {} THEN 0
    ELSE LET k == CHOOSE x \in keys : TRUE
         IN  instrument[k] + SumOver(instrument, keys \ {k})

\* what an instrument has accumulated for an endpoint, over all its other labels
Total(instrument, endpoint) ==
    SumOver(instrument, {a \in DOMAIN instrument : a.endpoint = endpoint})

\* the requests to an endpoint that have arrived and are not yet responded
InFlight(endpoint) ==
    {r \in Requests : Measured(r) /\ EndpointOf(r) = endpoint
                      /\ pc[r] \notin {"new", "responded"}}

\* the requests to an endpoint that have called request_counter.add
Counted(endpoint) ==
    {r \in Requests : Measured(r) /\ EndpointOf(r) = endpoint
                      /\ MetricCalls(r, "request_counter") # <<>>}

\* request_counter is incremented once per request, with the request's
\* endpoint, before the error check is made and whatever the check gives
CountedOnceFirst(r) ==
    LET counts == {i \in 1..Len(history[r]) :
                      /\ history[r][i].kind = "metric"
                      /\ history[r][i].instrument = "request_counter"}
    IN  /\ Cardinality(counts) <= 1
        /\ \A i \in counts : history[r][i].attributes.endpoint = EndpointOf(r)
        /\ \A c \in ChecksAt(r) : \E i \in counts : i < c
        /\ Returned(r) => Cardinality(counts) = 1

\* the parts of C15 that do not compare the error total with the histogram
C15_Accounting ==
    /\ \A e \in MeasuredEndpoints :
          /\ Total(response_time_histogram, e) <= Total(request_counter, e)
          /\ Total(request_counter, e) = Cardinality(Counted(e))
          /\ InFlight(e) = {} =>
                Total(response_time_histogram, e) = Total(request_counter, e)
    /\ \A r \in Requests :
          /\ Measured(r) => CountedOnceFirst(r)
          /\ path[r] \in {"/health", "/logs/sample"} =>
                \A i \in 1..Len(history[r]) : history[r][i].kind # "metric"
    /\ \A a \in DOMAIN request_counter \cup DOMAIN response_time_histogram
                \cup DOMAIN error_counter : a.endpoint \in MeasuredEndpoints

\* no step lowers a total, and a step of a request to /health or /logs/sample
\* leaves the three instruments as they are
C15_Steps ==
    /\ \A e \in MeasuredEndpoints :
          /\ Total(request_counter', e) >= Total(request_counter, e)
          /\ Total(response_time_histogram', e) >= Total(response_time_histogram, e)
          /\ Total(error_counter', e) >= Total(error_counter, e)
    /\ \A r \in Requests :
          (path'[r] \in {"/health", "/logs/sample"} /\ history'[r] # history[r]) =>
              UNCHANGED <<request_counter, response_time_histogram, error_counter>>

\* C15 as claimed: for / and /api/data, at every reachable state
\* error_counter total <= histogram count <= request_counter total;
\* request_counter is incremented once per request before the outcome is
\* decided; the totals never decrease; the histogram count equals the
\* request_counter total whenever no request to the endpoint is in flight;
\* /health and /logs/sample change no instrument.
C15_TotalsOrdered ==
    /\ [](C15_Accounting
          /\ \A e \in MeasuredEndpoints :
                Total(error_counter, e) <= Total(response_time_histogram, e))
    /\ [][C15_Steps]_vars

\* C15 amended: as claimed, except that the error total is bounded by the
\* histogram count only up to the requests in flight: error_counter total <=
\* request_counter total and histogram count <= request_counter total at every
\* reachable state, error_counter total <= histogram count + the number of
\* requests to the endpoint in flight, hence error_counter total <= histogram
\* count whenever none is in flight.
C15_TotalsOrderedWhenIdle ==
    /\ [](C15_Accounting
          /\ \A e \in MeasuredEndpoints :
                /\ Total(error_counter, e) <= Total(request_counter, e)
                /\ Total(error_counter, e)
                      <= Total(response_time_histogram, e) + Cardinality(InFlight(e))
                /\ InFlight(e) = {} =>
                      Total(error_counter, e) <= Total(response_time_histogram, e))
    /\ [][C15_Steps]_vars

\* two requests to /: one has been responded with 500, the other has counted
\* its injected error and not yet recorded its observation, so that the error
\* total is above the histogram count
C15_Witness ==
    \E r1, r2 \in Requests :
        /\ path[r1] = "/" /\ pc[r1] = "responded" /\ response[r1].status_code = 500
        /\ path[r2] = "/" /\ pc[r2] = "dispatch"
        /\ MetricCalls(r2, "error_counter") # <<>>
        /\ Total(request_counter, "root") = 2
        /\ Total(error_counter, "root") = 2
        /\ Total(response_time_histogram, "root") = 1

=============================================================================
